---- MODULE Spec2Model ----
(***************************************************************************)
(* The rand.* library functions of titus (titus/lib1/rand.py) and the      *)
(* module-level registry `provides`, as a state machine.                   *)
(*                                                                         *)
(* Two execution contexts run in lock step: both start from the same PRNG  *)
(* state and receive the same calls, but each has its own lexical scope.   *)
(* The PRNG of a context is a tape of raw draws that random() reads and    *)
(* rotates, plus the gauss_next cache of Python's random.Random.           *)
(*                                                                         *)
(* A raw draw x in 0..Grain-1 stands for random() = x/Grain; the draw      *)
(* x = Grain stands for the largest double below 1.0.                      *)
(***************************************************************************)
EXTENDS Integers, Sequences, FiniteSets, TLC

VARIABLES
    rand,       \* rand[c]: state.rand of context c, [tape, gauss_next]
    call,       \* the last call issued to both contexts
    outcome,    \* outcome[c]: what the last call returned or raised in c
    provides    \* the module-level dict name -> function

vars == <<rand, call, outcome, provides>>

---------------------------------------------------------------------------
(* Bounds of the model *)

Grain == 4          \* resolution of random(): draws are 0..Grain
TapeLen == 2        \* period of the PRNG tape in the general specification
MaxDouble == 4      \* largest finite double; a sum above it overflows to inf
MaxPop == 3         \* longest array population
MaxDist == 3        \* longest histogram distribution
MaxSize == 2        \* largest size argument of string and bytes

Contexts == {1, 2}
lexicalScope == [c \in Contexts |-> [ctx |-> c]]

Draws == 0..Grain

RECURSIVE SeqsUpTo(_, _)
SeqsUpTo(S, n) ==
    IF n = 0 THEN {<<>>}
    ELSE LET shorter == SeqsUpTo(S, n - 1)
         IN shorter \cup {Append(s, x) : s \in {t \in shorter : Len(t) = n - 1}, x \in S}

Tapes(n) == [1..n -> Draws]

---------------------------------------------------------------------------
(* Values *)

None == <<>>

Return(type, v) == [kind |-> "return", type |-> type, val |-> v]
Raise(exc, reason) == [kind |-> "raise", type |-> exc, val |-> reason]
NoOutcome == [kind |-> "init", type |-> "", val |-> None]

PFARuntimeException(reason) == Raise("PFARuntimeException", reason)
ValueError(reason) == Raise("ValueError", reason)
TypeError(reason) == Raise("TypeError", reason)

\* doubles: finite n, +-inf, nan
Fin(n) == [k |-> "fin", v |-> n]
Inf == [k |-> "inf", v |-> 1]
NegInf == [k |-> "inf", v |-> -1]
NaN == [k |-> "nan", v |-> 0]

isnan(x) == x.k = "nan"
isinf(x) == x.k = "inf"

\* x + y in IEEE arithmetic, for finite non-negative x and y or x = inf
FAdd(x, y) ==
    IF x.k = "inf" \/ y.k = "inf" THEN Inf
    ELSE IF x.v + y.v > MaxDouble THEN Inf
    ELSE Fin(x.v + y.v)

\* x < 0.0
FNegative(x) == (x.k = "fin" /\ x.v < 0) \/ (x.k = "inf" /\ x.v < 0)

\* A double computed from a draw: num/Grain, or just below it when `below`.
Scaled(num, below) == [k |-> "fin", num |-> num, below |-> below]
ScaledInf == [k |-> "inf", num |-> 0, below |-> FALSE]
ScaledNaN == [k |-> "nan", num |-> 0, below |-> FALSE]

\* Variant of FLess: position <= y, which sends a boundary draw to the bucket below
FLessOrEqual(position, y) ==
    CASE position.k = "nan" -> FALSE
      [] position.k = "inf" -> y.k = "inf" /\ y.v > 0
      [] y.k = "nan" -> FALSE
      [] y.k = "inf" -> y.v > 0
      [] OTHER -> IF position.below THEN position.num <= y.v * Grain
                  ELSE position.num <= y.v * Grain

\* position < y, for a position computed from a draw and a double y >= 0
FLess(position, y) ==
    CASE position.k = "nan" -> FALSE
      [] position.k = "inf" -> FALSE
      [] y.k = "nan" -> FALSE
      [] y.k = "inf" -> y.v > 0
      [] OTHER -> IF position.below THEN position.num <= y.v * Grain
                  ELSE position.num < y.v * Grain

---------------------------------------------------------------------------
(* state.rand: Python's random.Random *)

random(r) ==
    [x |-> Head(r.tape),
     rand |-> [r EXCEPT !.tape = Tail(r.tape) \o <<Head(r.tape)>>]]

\* int(random() * width)
IntOfDraw(x, width) == IF x = Grain THEN width - 1 ELSE (x * width) \div Grain

\* randint(a, b) = randrange(a, b + 1)
randint(r, a, b) ==
    LET width == b + 1 - a
        d == random(r)
    IN IF width > 0
       THEN [ok |-> TRUE, x |-> a + IntOfDraw(d.x, width), rand |-> d.rand]
       ELSE [ok |-> FALSE, x |-> 0, rand |-> r]

\* uniform(a, b) = a + (b - a) * random(), a finite, b finite or +inf
uniform(r, a, b) ==
    LET d == random(r)
    IN [x |-> IF b.k = "inf"
              THEN (IF d.x = 0 THEN ScaledNaN ELSE ScaledInf)
              ELSE IF d.x = Grain
                   THEN Scaled(b.v * Grain, b.v > a.v)
                   ELSE Scaled(a.v * Grain + (b.v - a.v) * d.x, FALSE),
        rand |-> d.rand]

\* the first n base-16 digits of the fraction x/Grain
RECURSIVE Nibbles(_, _)
Nibbles(x, n) ==
    IF n = 0 THEN <<>>
    ELSE IF x = Grain THEN <<15>> \o Nibbles(x, n - 1)
    ELSE <<(16 * x) \div Grain>> \o Nibbles((16 * x) % Grain, n - 1)

\* getrandbits(k): a k-bit integer, as its k/4 base-16 digits
getrandbits(r, k) ==
    LET d == random(r)
    IN [x |-> Nibbles(d.x, k \div 4), rand |-> d.rand]

\* sample(population, k), the pool branch (len(population) <= 21)
RECURSIVE samplePool(_, _, _, _, _)
samplePool(r, pool, n, k, i) ==
    IF i = k THEN [x |-> <<>>, rand |-> r]
    ELSE LET d == random(r)
             j == IntOfDraw(d.x, n - i)
             rest == samplePool(d.rand, [pool EXCEPT ![j + 1] = pool[n - i]], n, k, i + 1)
         IN [x |-> <<pool[j + 1]>> \o rest.x, rand |-> rest.rand]

sample(r, population, k) ==
    LET n == Len(population)
    IN IF ~(0 <= k /\ k <= n)
       THEN [ok |-> FALSE, x |-> <<>>, rand |-> r]
       ELSE LET s == samplePool(r, population, n, k, 0)
            IN [ok |-> TRUE, x |-> s.x, rand |-> s.rand]

\* gauss(mu, sigma): a fresh pair of draws gives the cos deviate and caches
\* the sin deviate in gauss_next
gauss(r, mu, sigma) ==
    IF r.gauss_next # None
    THEN [x |-> [mu |-> mu, sigma |-> sigma, z |-> r.gauss_next],
          rand |-> [r EXCEPT !.gauss_next = None]]
    ELSE LET d1 == random(r)
             d2 == random(d1.rand)
         IN [x |-> [mu |-> mu, sigma |-> sigma, z |-> <<"cos", d1.x, d2.x>>],
             rand |-> [d2.rand EXCEPT !.gauss_next = <<"sin", d1.x, d2.x>>]]

---------------------------------------------------------------------------
(* Python builtins used by the library *)

\* unichr(i) on a wide build: code points 0..0x10FFFF
unichrOk(i) == 0 <= i /\ i < 1114112

\* chr(i): 0..255
chrOk(i) == 0 <= i /\ i < 256

HexDigits == <<"0", "1", "2", "3", "4", "5", "6", "7",
               "8", "9", "a", "b", "c", "d", "e", "f">>

RECURSIVE StripZeros(_)
StripZeros(ds) ==
    IF Len(ds) > 1 /\ Head(ds) = 0 THEN StripZeros(Tail(ds)) ELSE ds

\* Variant of FormatHex: "{:x}", without the zero padding
FormatHexUnpadded(n, width) ==
    LET ds == StripZeros(IF n = <<>> THEN <<0>> ELSE n)
    IN [i \in 1..Len(ds) |-> HexDigits[ds[i] + 1]]

\* "{:0<width>x}".format(n), n given by its base-16 digits: the digits of n
\* without leading zeros, left-padded with "0" up to width
FormatHex(n, width) ==
    LET ds == StripZeros(IF n = <<>> THEN <<0>> ELSE n)
        pad == IF Len(ds) < width THEN width - Len(ds) ELSE 0
    IN [i \in 1..pad |-> "0"] \o [i \in 1..Len(ds) |-> HexDigits[ds[i] + 1]]

---------------------------------------------------------------------------
(* The library functions: __call__(self, state, scope, paramTypes, *args) *)

Result(r, out) == [state |-> [rand |-> r], out |-> out]

\* Variant of RandomInt: randint(low, high), keeping Python's inclusive upper bound
RandomIntInclusive(state, scope, paramTypes, args) ==
    IF Len(args) = 0
    THEN LET d == getrandbits(state.rand, 32)
         IN Result(d.rand, Return("int", [min |-> "INT_MIN_VALUE", offset |-> d.x]))
    ELSE IF args[2] <= args[1]
         THEN Result(state.rand, PFARuntimeException("high must be greater than low"))
         ELSE LET d == randint(state.rand, args[1], args[2])
              IN Result(d.rand, Return("int", d.x))

RandomInt(state, scope, paramTypes, args) ==
    IF Len(args) = 0
    THEN LET d == getrandbits(state.rand, 32)
         IN Result(d.rand, Return("int", [min |-> "INT_MIN_VALUE", offset |-> d.x]))
    ELSE IF args[2] <= args[1]
         THEN Result(state.rand, PFARuntimeException("high must be greater than low"))
         ELSE LET d == randint(state.rand, args[1], args[2] - 1)
              IN Result(d.rand, Return("int", d.x))

RandomLong(state, scope, paramTypes, args) ==
    IF Len(args) = 0
    THEN LET d == getrandbits(state.rand, 64)
         IN Result(d.rand, Return("long", [min |-> "LONG_MIN_VALUE", offset |-> d.x]))
    ELSE IF args[2] <= args[1]
         THEN Result(state.rand, PFARuntimeException("high must be greater than low"))
         ELSE LET d == randint(state.rand, args[1], args[2] - 1)
              IN Result(d.rand, Return("long", d.x))

RandomFloat(state, scope, paramTypes, low, high) ==
    IF high <= low
    THEN Result(state.rand, PFARuntimeException("high must be greater than low"))
    ELSE LET d == uniform(state.rand, Fin(low), Fin(high))
         IN Result(d.rand, Return("float", d.x))

RandomDouble(state, scope, paramTypes, low, high) ==
    IF high <= low
    THEN Result(state.rand, PFARuntimeException("high must be greater than low"))
    ELSE LET d == uniform(state.rand, Fin(low), Fin(high))
         IN Result(d.rand, Return("double", d.x))

\* Variant of RandomChoice: the index also depends on the caller's scope
RandomChoiceScoped(state, scope, paramTypes, population) ==
    IF Len(population) = 0
    THEN Result(state.rand, PFARuntimeException("population must not be empty"))
    ELSE LET d == randint(state.rand, 0, Len(population) - 1)
         IN Result(d.rand,
                   Return("item", population[((d.x + scope.ctx) % Len(population)) + 1]))

RandomChoice(state, scope, paramTypes, population) ==
    IF Len(population) = 0
    THEN Result(state.rand, PFARuntimeException("population must not be empty"))
    ELSE LET d == randint(state.rand, 0, Len(population) - 1)
         IN Result(d.rand, Return("item", population[d.x + 1]))

\* [population[rand.randint(0, len(population) - 1)] for x in xrange(size)];
\* ok is FALSE when randint raised ValueError
RECURSIVE drawItems(_, _, _)
drawItems(r, size, population) ==
    IF size <= 0 THEN [ok |-> TRUE, x |-> <<>>, rand |-> r]
    ELSE LET d == randint(r, 0, Len(population) - 1)
         IN IF ~d.ok THEN [ok |-> FALSE, x |-> <<>>, rand |-> d.rand]
            ELSE LET rest == drawItems(d.rand, size - 1, population)
                 IN [ok |-> rest.ok, x |-> <<population[d.x + 1]>> \o rest.x,
                     rand |-> rest.rand]

RandomChoices(state, scope, paramTypes, size, population) ==
    IF Len(population) = 0
    THEN Result(state.rand, PFARuntimeException("population must not be empty"))
    ELSE LET d == drawItems(state.rand, size, population)
         IN Result(d.rand, Return("array", d.x))

\* Variant of RandomSample: draws with replacement, as rand.choices does
RandomSampleReplacing(state, scope, paramTypes, size, population) ==
    IF Len(population) = 0
    THEN Result(state.rand, PFARuntimeException("population must not be empty"))
    ELSE IF Len(population) < size
    THEN Result(state.rand, PFARuntimeException("population smaller than requested subsample"))
    ELSE LET d == drawItems(state.rand, size, population)
         IN Result(d.rand, Return("array", d.x))

RandomSample(state, scope, paramTypes, size, population) ==
    IF Len(population) = 0
    THEN Result(state.rand, PFARuntimeException("population must not be empty"))
    ELSE IF Len(population) < size
    THEN Result(state.rand, PFARuntimeException("population smaller than requested subsample"))
    ELSE LET d == sample(state.rand, population, size)
         IN IF d.ok THEN Result(d.rand, Return("array", d.x))
            ELSE Result(d.rand, ValueError("sample larger than population"))

RECURSIVE cumulativeSum(_)
cumulativeSum(distribution) ==
    IF Len(distribution) = 0 THEN <<Fin(0)>>
    ELSE LET front == cumulativeSum(SubSeq(distribution, 1, Len(distribution) - 1))
         IN Append(front, FAdd(front[Len(front)], distribution[Len(distribution)]))

Min(S) == CHOOSE x \in S : \A y \in S : x <= y

\* Variant of selectIndex: draws before it checks the total
selectIndexDrawFirst(r, distribution) ==
    IF \E i \in 1..Len(distribution) : isnan(distribution[i]) \/ isinf(distribution[i])
    THEN [rand |-> r, out |-> PFARuntimeException("distribution must be finite")]
    ELSE IF \E i \in 1..Len(distribution) : FNegative(distribution[i])
    THEN [rand |-> r, out |-> PFARuntimeException("distribution must be non-negative")]
    ELSE LET cum == cumulativeSum(distribution)
             total == cum[Len(cum)]
             d == uniform(r, Fin(0), total)
             hits == {i \in 0..(Len(cum) - 1) : FLess(d.x, cum[i + 1])}
         IN IF total = Fin(0)
            THEN [rand |-> d.rand, out |-> PFARuntimeException("distribution must be non-empty")]
            ELSE [rand |-> d.rand,
                  out |-> IF hits = {} THEN Return("NoneType", None)
                          ELSE Return("int", Min(hits) - 1)]

selectIndex(r, distribution) ==
    IF \E i \in 1..Len(distribution) : isnan(distribution[i]) \/ isinf(distribution[i])
    THEN [rand |-> r, out |-> PFARuntimeException("distribution must be finite")]
    ELSE IF \E i \in 1..Len(distribution) : FNegative(distribution[i])
    THEN [rand |-> r, out |-> PFARuntimeException("distribution must be non-negative")]
    ELSE LET cum == cumulativeSum(distribution)
             total == cum[Len(cum)]
         IN IF total = Fin(0)
            THEN [rand |-> r, out |-> PFARuntimeException("distribution must be non-empty")]
            ELSE LET d == uniform(r, Fin(0), total)
                     hits == {i \in 0..(Len(cum) - 1) : FLess(d.x, cum[i + 1])}
                 IN [rand |-> d.rand,
                     out |-> IF hits = {} THEN Return("NoneType", None)
                             ELSE Return("int", Min(hits) - 1)]

isRecordType(t) == t.dict /\ t.type = "record"

RandomHistogram(state, scope, paramTypes, distribution) ==
    IF isRecordType(paramTypes[Len(paramTypes)])
    THEN LET probs == [i \in 1..Len(distribution) |-> distribution[i].prob]
             s == selectIndex(state.rand, probs)
         IN IF s.out.kind = "raise" THEN Result(s.rand, s.out)
            ELSE IF s.out.type = "NoneType"
            THEN Result(s.rand, TypeError("list indices must be integers, not NoneType"))
            ELSE Result(s.rand, Return("record", distribution[s.out.val + 1]))
    ELSE LET s == selectIndex(state.rand, distribution)
         IN Result(s.rand, s.out)

\* "".join(conv(rand.randint(low, high)) for x in xrange(size)), with conv
\* unichr (wide = TRUE) or chr; err is "" or the ValueError raised on the way
RECURSIVE drawChars(_, _, _, _, _)
drawChars(r, size, low, high, wide) ==
    IF size <= 0 THEN [err |-> "", x |-> <<>>, rand |-> r]
    ELSE LET d == randint(r, low, high)
         IN IF ~d.ok
            THEN [err |-> "empty range for randrange()", x |-> <<>>, rand |-> d.rand]
            ELSE IF wide /\ ~unichrOk(d.x)
            THEN [err |-> "unichr() arg not in range(0x110000)", x |-> <<>>, rand |-> d.rand]
            ELSE IF ~wide /\ ~chrOk(d.x)
            THEN [err |-> "chr() arg not in range(256)", x |-> <<>>, rand |-> d.rand]
            ELSE LET rest == drawChars(d.rand, size - 1, low, high, wide)
                 IN [err |-> rest.err, x |-> <<d.x>> \o rest.x, rand |-> rest.rand]

SurrogateStart == 55296     \* 0xD800

RandomString(state, scope, paramTypes, size, args) ==
    IF size <= 0
    THEN Result(state.rand, PFARuntimeException("size must be positive"))
    ELSE IF Len(args) = 0
    THEN LET d == drawChars(state.rand, size, 1, SurrogateStart, TRUE)
         IN IF d.err # "" THEN Result(d.rand, ValueError(d.err))
            ELSE Result(d.rand, Return("string", d.x))
    ELSE IF Len(args) = 1
    THEN LET d == drawItems(state.rand, size, args[1])
         IN IF ~d.ok THEN Result(d.rand, ValueError("empty range for randrange()"))
            ELSE Result(d.rand, Return("string", d.x))
    ELSE IF args[2] <= args[1]
    THEN Result(state.rand, PFARuntimeException("high must be greater than low"))
    ELSE LET d == drawChars(state.rand, size, args[1], args[2] - 1, TRUE)
         IN IF d.err # "" THEN Result(d.rand, ValueError(d.err))
            ELSE Result(d.rand, Return("string", d.x))

RandomBytes(state, scope, paramTypes, size, args) ==
    IF size <= 0
    THEN Result(state.rand, PFARuntimeException("size must be positive"))
    ELSE IF Len(args) = 0
    THEN LET d == drawChars(state.rand, size, 0, 255, FALSE)
         IN IF d.err # "" THEN Result(d.rand, ValueError(d.err))
            ELSE Result(d.rand, Return("bytes", d.x))
    ELSE IF Len(args) = 1
    THEN LET d == drawItems(state.rand, size, args[1])
         IN IF ~d.ok THEN Result(d.rand, ValueError("empty range for randrange()"))
            ELSE Result(d.rand, Return("bytes", d.x))
    ELSE IF args[2] <= args[1]
    THEN Result(state.rand, PFARuntimeException("high must be greater than low"))
    ELSE LET d == drawChars(state.rand, size, args[1], args[2] - 1, FALSE)
         IN IF d.err # "" THEN Result(d.rand, ValueError(d.err))
            ELSE Result(d.rand, Return("bytes", d.x))

\* "{0:08x}-{1:04x}-4{2:03x}-8{3:03x}-{4:016x}".format(getrandbits(32), ...)
RandomUUID(state, scope, paramTypes) ==
    LET d0 == getrandbits(state.rand, 32)
        d1 == getrandbits(d0.rand, 16)
        d2 == getrandbits(d1.rand, 12)
        d3 == getrandbits(d2.rand, 12)
        d4 == getrandbits(d3.rand, 64)
    IN Result(d4.rand,
              Return("string",
                     FormatHex(d0.x, 8) \o <<"-">> \o FormatHex(d1.x, 4) \o <<"-", "4">>
                     \o FormatHex(d2.x, 3) \o <<"-", "8">> \o FormatHex(d3.x, 3)
                     \o <<"-">> \o FormatHex(d4.x, 16)))

Gaussian(state, scope, paramTypes, mu, sigma) ==
    LET d == gauss(state.rand, mu, sigma)
    IN Result(d.rand, Return("double", d.x))

\* provides[fcn.name] = fcn
provide(registry, fcn) ==
    [n \in DOMAIN registry \cup {fcn.name} |->
        IF n = fcn.name THEN fcn ELSE registry[n]]

---------------------------------------------------------------------------
(* The registry after the module is imported: provide(RandomInt()), ... *)

Library ==
    << [name |-> "rand.int", cls |-> "RandomInt"],
       [name |-> "rand.long", cls |-> "RandomLong"],
       [name |-> "rand.float", cls |-> "RandomFloat"],
       [name |-> "rand.double", cls |-> "RandomDouble"],
       [name |-> "rand.choice", cls |-> "RandomChoice"],
       [name |-> "rand.choices", cls |-> "RandomChoices"],
       [name |-> "rand.sample", cls |-> "RandomSample"],
       [name |-> "rand.histogram", cls |-> "RandomHistogram"],
       [name |-> "rand.string", cls |-> "RandomString"],
       [name |-> "rand.bytes", cls |-> "RandomBytes"],
       [name |-> "rand.uuid", cls |-> "RandomUUID"],
       [name |-> "rand.gaussian", cls |-> "Gaussian"] >>

RECURSIVE provideAll(_, _)
provideAll(registry, fcns) ==
    IF fcns = <<>> THEN registry
    ELSE provideAll(provide(registry, Head(fcns)), Tail(fcns))

InitialProvides == provideAll(<<>>, Library)

---------------------------------------------------------------------------
(* Inputs *)

Prim(t) == [dict |-> FALSE, type |-> t]
ArrayType == [dict |-> TRUE, type |-> "array"]
RecordType == [dict |-> TRUE, type |-> "record"]

NoCall == [name |-> "", paramTypes |-> <<>>, args |-> <<>>]

Ints == 4..7
RangeArgs == {<<>>} \cup (Ints \X Ints)

Items == {"a", "b"}
Populations == SeqsUpTo(Items, MaxPop)
SampleSizes == -1..(MaxPop + 1)

Weights == {NaN, Inf, NegInf, Fin(-1), Fin(0), Fin(1), Fin(2)}
Distributions == SeqsUpTo(Weights, MaxDist)

\* the array of records whose prob fields are the weights
Records(weights) == [i \in 1..Len(weights) |-> [prob |-> weights[i], item |-> i]]

Sizes == -1..MaxSize
Chars == {97, 98}
StringArgs ==
    {<<>>} \cup {<<p>> : p \in SeqsUpTo(Chars, 2)} \cup ({-1, 65} \X {65, 66, 67})
BytesArgs ==
    {<<>>} \cup {<<p>> : p \in SeqsUpTo(Chars, 2)} \cup ({-1, 255} \X {255, 256, 257})

Fcns == [name : {"rand.int", "rand.uuid", "rand.extra"},
         cls : {"RandomInt", "RandomUUID", "Extra"}]

---------------------------------------------------------------------------
(* Initial states: both contexts are created with the same seed *)

InitWith(n) ==
    /\ \E t \in Tapes(n) :
          rand = [c \in Contexts |-> [tape |-> t, gauss_next |-> None]]
    /\ call = NoCall
    /\ outcome = [c \in Contexts |-> NoOutcome]
    /\ provides = InitialProvides

Init == InitWith(TapeLen)

Fresh == call = NoCall

---------------------------------------------------------------------------
(* Actions: one call, issued to both contexts *)

State(c) == [rand |-> rand[c]]

Invoke(name, paramTypes, args, res) ==
    /\ call' = [name |-> name, paramTypes |-> paramTypes, args |-> args]
    /\ rand' = [c \in Contexts |-> res[c].state.rand]
    /\ outcome' = [c \in Contexts |-> res[c].out]
    /\ UNCHANGED provides

ArgTypes(args, t) == [i \in 1..(Len(args) + 1) |-> Prim(t)]

CallInt(A) ==
    \E args \in A :
        LET pt == ArgTypes(args, "int")
        IN Invoke("rand.int", pt, args,
                  [c \in Contexts |-> RandomInt(State(c), lexicalScope[c], pt, args)])

CallLong(A) ==
    \E args \in A :
        LET pt == ArgTypes(args, "long")
        IN Invoke("rand.long", pt, args,
                  [c \in Contexts |-> RandomLong(State(c), lexicalScope[c], pt, args)])

CallFloat(A) ==
    \E args \in A :
        LET pt == ArgTypes(args, "float")
        IN Invoke("rand.float", pt, args,
                  [c \in Contexts |->
                      RandomFloat(State(c), lexicalScope[c], pt, args[1], args[2])])

CallDouble(A) ==
    \E args \in A :
        LET pt == ArgTypes(args, "double")
        IN Invoke("rand.double", pt, args,
                  [c \in Contexts |->
                      RandomDouble(State(c), lexicalScope[c], pt, args[1], args[2])])

CallChoice(P) ==
    \E population \in P :
        LET pt == <<ArrayType, Prim("string")>>
        IN Invoke("rand.choice", pt, <<population>>,
                  [c \in Contexts |->
                      RandomChoice(State(c), lexicalScope[c], pt, population)])

CallChoices(S, P) ==
    \E size \in S, population \in P :
        LET pt == <<Prim("int"), ArrayType, ArrayType>>
        IN Invoke("rand.choices", pt, <<size, population>>,
                  [c \in Contexts |->
                      RandomChoices(State(c), lexicalScope[c], pt, size, population)])

CallSample(S, P) ==
    \E size \in S, population \in P :
        LET pt == <<Prim("int"), ArrayType, ArrayType>>
        IN Invoke("rand.sample", pt, <<size, population>>,
                  [c \in Contexts |->
                      RandomSample(State(c), lexicalScope[c], pt, size, population)])

CallHistogram(D) ==
    \E distribution \in D :
        LET pt == <<ArrayType, Prim("int")>>
        IN Invoke("rand.histogram", pt, <<distribution>>,
                  [c \in Contexts |->
                      RandomHistogram(State(c), lexicalScope[c], pt, distribution)])

CallHistogramRecords(D) ==
    \E weights \in D :
        LET pt == <<ArrayType, RecordType>>
        IN Invoke("rand.histogram", pt, <<Records(weights)>>,
                  [c \in Contexts |->
                      RandomHistogram(State(c), lexicalScope[c], pt, Records(weights))])

CallString(S, A) ==
    \E size \in S, args \in A :
        LET pt == ArgTypes(<<size>> \o args, "string")
        IN Invoke("rand.string", pt, <<size>> \o args,
                  [c \in Contexts |->
                      RandomString(State(c), lexicalScope[c], pt, size, args)])

CallBytes(S, A) ==
    \E size \in S, args \in A :
        LET pt == ArgTypes(<<size>> \o args, "bytes")
        IN Invoke("rand.bytes", pt, <<size>> \o args,
                  [c \in Contexts |->
                      RandomBytes(State(c), lexicalScope[c], pt, size, args)])

CallUUID ==
    LET pt == <<Prim("string")>>
    IN Invoke("rand.uuid", pt, <<>>,
              [c \in Contexts |-> RandomUUID(State(c), lexicalScope[c], pt)])

CallGaussian(M) ==
    \E args \in M :
        LET pt == ArgTypes(args, "double")
        IN Invoke("rand.gaussian", pt, args,
                  [c \in Contexts |->
                      Gaussian(State(c), lexicalScope[c], pt, args[1], args[2])])

Provide ==
    \E fcn \in Fcns :
        /\ provides' = provide(provides, fcn)
        /\ UNCHANGED <<rand, call, outcome>>

---------------------------------------------------------------------------
(* The general specification: any sequence of calls on the two contexts *)

SomeRanges == {<<>>, <<5, 4>>, <<5, 5>>, <<5, 6>>, <<5, 7>>}
SomeLongRanges == {<<>>, <<5, 5>>, <<5, 7>>}
SomeBounds == {<<5, 5>>, <<5, 7>>}
SomePopulations == {<<>>, <<"a">>, <<"a", "b">>}
SomeChoicesSizes == {-1, 2}
SomeSampleSizes == {-1, 0, 2, 3}
SomeDistributions ==
    {<<>>, <<NaN>>, <<NegInf, Fin(-1)>>, <<Fin(1), Fin(-1)>>, <<Fin(0), Fin(0)>>,
     <<Fin(1), Fin(1)>>, <<Fin(1), Fin(1), Fin(2)>>, <<Fin(MaxDouble), Fin(1)>>}
SomeRecordDistributions ==
    {<<>>, <<Fin(1), Fin(-1)>>, <<Fin(1), Fin(1)>>, <<Fin(MaxDouble), Fin(1)>>}
SomeStringArgs == {<<>>, <<<<>>>>, <<<<97, 98>>>>, <<65, 65>>, <<65, 67>>, <<-1, 1>>}
SomeBytesArgs == {<<>>, <<<<>>>>, <<65, 65>>, <<255, 257>>}
SomeStringSizes == {0, 2}
SomeGaussians == {<<0, 1>>}

Next ==
    \/ CallInt(SomeRanges)
    \/ CallLong(SomeLongRanges)
    \/ CallFloat(SomeBounds)
    \/ CallDouble(SomeBounds)
    \/ CallChoice(SomePopulations)
    \/ CallChoices(SomeChoicesSizes, SomePopulations)
    \/ CallSample(SomeSampleSizes, SomePopulations)
    \/ CallHistogram(SomeDistributions)
    \/ CallHistogramRecords(SomeRecordDistributions)
    \/ CallString(SomeStringSizes, SomeStringArgs)
    \/ CallBytes(SomeStringSizes, SomeBytesArgs)
    \/ CallUUID
    \/ CallGaussian(SomeGaussians)

Spec == Init /\ [][Next]_vars

---------------------------------------------------------------------------
(* Specifications of one call on a fresh pair of contexts, per function *)

HistogramDraws == 1     \* selectIndex draws once
UUIDDraws == 5          \* uuid draws five times

NextInt == Fresh /\ (CallInt(RangeArgs) \/ CallLong(RangeArgs))
SpecInt == Init /\ [][NextInt]_vars

NextSample == Fresh /\ CallSample(SampleSizes, Populations)
SpecSample == InitWith(MaxPop) /\ [][NextSample]_vars

NextHistogram ==
    Fresh /\ (CallHistogram(Distributions) \/ CallHistogramRecords(Distributions))
SpecHistogram == InitWith(HistogramDraws) /\ [][NextHistogram]_vars

NextString == Fresh /\ CallString(Sizes, StringArgs)
SpecString == Init /\ [][NextString]_vars

NextUUID == Fresh /\ CallUUID
SpecUUID == InitWith(UUIDDraws) /\ [][NextUUID]_vars

SpecRegistry == Init /\ [][Provide]_vars

---------------------------------------------------------------------------
(* Properties *)

IsInvalidArgument(o) == o.kind = "raise" /\ o.type = "PFARuntimeException"

\* C1: rand.int(low, high) and rand.long(low, high) raise "high must be greater
\* than low" when high <= low, and otherwise return an integer r with
\* low <= r < high, whatever the draw.
C1_RangeHalfOpen ==
    \A c \in Contexts :
        (call.name \in {"rand.int", "rand.long"} /\ Len(call.args) = 2) =>
            LET low == call.args[1]
                high == call.args[2]
                o == outcome[c]
            IN IF high <= low
               THEN IsInvalidArgument(o) /\ o.val = "high must be greater than low"
               ELSE o.kind = "return" /\ o.val \in low..(high - 1)

\* rand.long(5, 7) has returned 6, the largest value of [5, 7)
C1_Witness ==
    /\ call.name = "rand.long"
    /\ call.args = <<5, 7>>
    /\ outcome[1].kind = "return"
    /\ outcome[1].val = 6

\* the weights a rand.histogram call selects by
WeightsOf(cl) ==
    IF isRecordType(cl.paramTypes[Len(cl.paramTypes)])
    THEN [i \in 1..Len(cl.args[1]) |-> cl.args[1][i].prob]
    ELSE cl.args[1]

\* cumulativeSum[k] of the weights w: cumulativeSum[0] = 0,
\* cumulativeSum[k] = cumulativeSum[k - 1] + w[k]
RECURSIVE PrefixSum(_, _)
PrefixSum(w, k) == IF k = 0 THEN 0 ELSE PrefixSum(w, k - 1) + w[k].v

\* finite, non-negative weights with a positive (finite) total
Admissible(w) ==
    /\ \A i \in 1..Len(w) : w[i].k = "fin" /\ w[i].v >= 0
    /\ PrefixSum(w, Len(w)) > 0
    /\ PrefixSum(w, Len(w)) <= MaxDouble

\* position < s, for the position the draw x gives in [0, total)
PositionBelow(x, total, s) ==
    IF x = Grain THEN total <= s ELSE x * total < s * Grain

\* the smallest index i with position < cumulativeSum[i + 1]
Bucket(w, x) ==
    Min({i \in 0..(Len(w) - 1) :
            PositionBelow(x, PrefixSum(w, Len(w)), PrefixSum(w, i + 1))})

\* C2: for finite non-negative weights with positive total, rand.histogram
\* selects the smallest index i with position < cumulativeSum[i + 1], so a
\* position equal to a cumulative boundary falls into the bucket above it.
C2_BoundaryLaw ==
    [][\A c \in Contexts :
         (call'.name = "rand.histogram" /\ Admissible(WeightsOf(call'))) =>
             LET i == Bucket(WeightsOf(call'), Head(rand[c].tape))
                 o == outcome'[c]
             IN /\ o.kind = "return"
                /\ IF o.type = "record" THEN o.val = call'.args[1][i + 1]
                   ELSE o.type = "int" /\ o.val = i]_vars

\* the distribution [1, 1, 2] with the draw at position 1.0 has selected index 1
C2_Witness ==
    /\ call.name = "rand.histogram"
    /\ ~isRecordType(call.paramTypes[Len(call.paramTypes)])
    /\ call.args[1] = <<Fin(1), Fin(1), Fin(2)>>
    /\ rand[1].tape = <<1>>
    /\ outcome[1].type = "int"
    /\ outcome[1].val = 1

\* o returns k elements taken from k distinct positions of P
IsSampleOf(o, k, P) ==
    /\ o.kind = "return"
    /\ Len(o.val) = k
    /\ \E pos \in [1..k -> 1..Len(P)] :
          /\ \A i, j \in 1..k : pos[i] = pos[j] => i = j
          /\ \A i \in 1..k : o.val[i] = P[pos[i]]

\* C3 as stated: for k >= 0, rand.sample returns k elements from k distinct
\* positions whenever k <= len(P), and raises InvalidArgument whenever k > len(P).
C3_AsStated ==
    \A c \in Contexts :
        (call.name = "rand.sample" /\ call.args[1] >= 0) =>
            IF call.args[1] <= Len(call.args[2])
            THEN IsSampleOf(outcome[c], call.args[1], call.args[2])
            ELSE IsInvalidArgument(outcome[c])

\* C3: for k >= 0, rand.sample raises InvalidArgument when P is empty or
\* k > len(P), and otherwise returns k elements from k distinct positions of P.
C3_SampleDistinct ==
    \A c \in Contexts :
        (call.name = "rand.sample" /\ call.args[1] >= 0) =>
            IF Len(call.args[2]) = 0 \/ call.args[1] > Len(call.args[2])
            THEN IsInvalidArgument(outcome[c])
            ELSE IsSampleOf(outcome[c], call.args[1], call.args[2])

\* two elements have been sampled from a population of three
C3_Witness ==
    /\ call.name = "rand.sample"
    /\ call.args = <<2, <<"a", "b", "a">> >>
    /\ outcome[1].kind = "return"
    /\ outcome[1].val = <<"a", "a">>

IsHex(ch) == \E i \in 1..16 : HexDigits[i] = ch

\* C5: rand.uuid() returns 40 characters (groups of 8, 4, 4, 4 and 16) with
\* hyphens at positions 9, 14, 19 and 24, the version nibble "4" first in the
\* third group and the variant nibble "8" first in the fourth group, whatever
\* the five draws.
C5_UUIDShape ==
    \A c \in Contexts :
        call.name = "rand.uuid" =>
            LET u == outcome[c].val
            IN /\ outcome[c].kind = "return"
               /\ Len(u) = 40
               /\ u[15] = "4"
               /\ u[20] = "8"
               /\ \A i \in 1..40 :
                     IF i \in {9, 14, 19, 24} THEN u[i] = "-" ELSE IsHex(u[i])

\* a uuid whose first and third fields were drawn as zero and whose second
\* field was drawn as all ones
C5_Witness ==
    /\ call.name = "rand.uuid"
    /\ outcome[1].kind = "return"
    /\ outcome[1].val[1] = "0"
    /\ outcome[1].val[10] = "f"
    /\ outcome[1].val[16] = "0"

\* C6: rand.histogram raises InvalidArgument exactly when a weight is not
\* finite ("distribution must be finite"), a weight is negative ("distribution
\* must be non-negative") or the total is 0; in every other case it returns an
\* index, or the record at that index.
C6_HistogramErrors ==
    \A c \in Contexts :
        call.name = "rand.histogram" =>
            LET w == WeightsOf(call)
                o == outcome[c]
            IN IF \E i \in 1..Len(w) : w[i].k # "fin"
               THEN IsInvalidArgument(o) /\ o.val = "distribution must be finite"
               ELSE IF \E i \in 1..Len(w) : w[i].v < 0
               THEN IsInvalidArgument(o) /\ o.val = "distribution must be non-negative"
               ELSE IF PrefixSum(w, Len(w)) = 0
               THEN IsInvalidArgument(o)
               ELSE /\ o.kind = "return"
                    /\ IF isRecordType(call.paramTypes[Len(call.paramTypes)])
                       THEN o.type = "record" /\ \E i \in 1..Len(w) : o.val = call.args[1][i]
                       ELSE o.type = "int" /\ o.val \in 0..(Len(w) - 1)

\* C7: a registration under a name that is already registered is rejected:
\* the name keeps the function it had.
C7_FirstRegistrationKept ==
    [][\A n \in DOMAIN provides :
          n \in DOMAIN provides' /\ provides'[n] = provides[n]]_vars

\* C8: a rand.* call either returns or raises PFARuntimeException; no other
\* exception leaves the function body.
C8_OnlyTypedErrors ==
    \A c \in Contexts :
        outcome[c].kind = "raise" => outcome[c].type = "PFARuntimeException"

\* C9: rand.string(size) with size > 0 returns size characters, none of them a
\* surrogate code point (0xD800..0xDFFF).
C9_NoSurrogates ==
    \A c \in Contexts :
        (call.name = "rand.string" /\ Len(call.args) = 1 /\ call.args[1] > 0) =>
            /\ outcome[c].kind = "return"
            /\ Len(outcome[c].val) = call.args[1]
            /\ \A i \in 1..Len(outcome[c].val) :
                  ~(55296 <= outcome[c].val[i] /\ outcome[c].val[i] <= 57343)

\* C10: a call that raises InvalidArgument leaves the PRNG state of its
\* context as it was before the call.
C10_ErrorsDrawNothing ==
    [][\A c \in Contexts :
          (call' # NoCall /\ IsInvalidArgument(outcome'[c])) => rand'[c] = rand[c]]_vars

\* rand.histogram has raised on a zero total after an earlier rand.gaussian call
C10_Witness ==
    /\ call.name = "rand.histogram"
    /\ call.args = << <<Fin(0), Fin(0)>> >>
    /\ rand[1].gauss_next # None
    /\ IsInvalidArgument(outcome[1])
    /\ outcome[1].val = "distribution must be non-empty"

====
